---- MODULE Spec2Model ----
(***************************************************************************)
(* Model of neo_dolfin/api/optimized_api/API_db_op.py: the DolFin SQLite   *)
(* store (users, transactions), the basiq identity registration, the bank  *)
(* account link, the remote transaction fetch and the transaction cache.   *)
(*                                                                         *)
(* Callers (Procs) run the module's functions against the one database     *)
(* file.  A function that only touches the store is one step; a function   *)
(* that calls the remote provider is split at the remote call, and         *)
(* cache_transactions is split at every INSERT of its one SQLite           *)
(* transaction, so that other callers interleave where they really can.    *)
(* Caller p1 runs every function; between its steps caller p2 writes the   *)
(* store and user rows are deleted.  SQLite's write lock makes a writer    *)
(* wait while another caller's write transaction is open.                  *)
(* limit_para and filter_para of request_transactions_df are handed to the *)
(* provider unread and are left out.                                       *)
(*                                                                         *)
(* Spec runs everything.  SpecSyncer, SpecLinker and SpecReader are parts  *)
(* of it; SpecConc lets both callers run register_basiq_id at once;        *)
(* SpecNormalize and SpecProfiles run request_transactions_df and          *)
(* get_user_info over wider inputs.                                        *)
(***************************************************************************)
EXTENDS Integers, Sequences, FiniteSets, TLC

\* ---------------------------------------------------------------- bounds
MaxUsers == 2          \* rows the users table ever receives (AUTOINCREMENT)
MaxPid   == 2          \* identifiers the provider issues
MaxBatch == 2          \* rows of one tran_data batch

Procs == {"p1", "p2"}
NoProc == "none"

\* --------------------------------------------------------- Python values
\* A Python value is a record [type, val]; val is a string for the types
\* the model compares (str, NoneType) and is only read after type is known.
PyNone == [type |-> "NoneType", val |-> ""]
PyStr(s) == [type |-> "str", val |-> s]
PyDict(d) == [type |-> "dict", val |-> d]
PyFrame(rows) == [type |-> "DataFrame", val |-> rows]
PyRaise(e) == [type |-> "raise", val |-> e]

\* `if result:` / `if x.get(k)` : truthiness of a value; None, the empty
\* str and the empty dict are false
Truthy(v) ==
  /\ v.type # "NoneType"
  /\ v.type = "str" => v.val # ""
  /\ v.type = "dict" => DOMAIN v.val # {}

NoUserMsg   == PyStr("No user found with the given ID.")
ErrorMsg(e) == PyStr("An error occurred: " \o e)
RegisterUserMsg == PyStr("User inserted successfully into 'users' table.")
RegisterBasiqMsg == PyStr("basiq_id updated successfully for user ID")
CacheMsg == PyStr("Transactions successfully inserted.")
ClearMsg == PyStr("Transactions table cleared successfully.")

\* the identifier the provider issues on its n-th account creation
BasiqId(n) == "basiq-" \o ToString(n)

\* ------------------------------------------------------------ input sets
UserIds == 1..MaxUsers
\* user ids callers pass: an id has no row before it is issued and after
\* its row is deleted
CallIds == UserIds

People ==
  { [email |-> "a@x.com", mobile |-> "000", first_name |-> "A",
     middle_name |-> "", last_name |-> "B", password |-> "h"] }

\* People and a second person, who shares no field with the first
Profiles ==
  People \cup
  { [email |-> "c@y.org", mobile |-> "111", first_name |-> "C",
     middle_name |-> "M", last_name |-> "D", password |-> "k"] }

Groceries == [title |-> "Groceries", code |-> "G1"]

\* a provider record: the eleven scalar fields and the optional subClass
ProviderRecord(id, amount) ==
  [type |-> "payment", id |-> id, status |-> "posted", description |-> "d",
   amount |-> amount, account |-> "acc", balance |-> "100.00",
   direction |-> "debit", class |-> "payment", institution |-> "AU00000",
   postDate |-> "2023-08-01"]

WithSubClass(r, sc) ==
  [k \in DOMAIN r \cup {"subClass"} |-> IF k = "subClass" THEN sc ELSE r[k]]

\* the records the provider lists: one with a subClass, one without the key
ProviderRecords ==
  { WithSubClass(ProviderRecord("x", "-5.00"), PyDict(Groceries)),
    ProviderRecord("y", "-7.00") }

\* what the provider can list beyond ProviderRecords: either id, either
\* amount, and the subClass missing, null or one of two categories
Fuel == [title |-> "Fuel", code |-> "F2"]

ProviderRecordsWide ==
  LET plain == { ProviderRecord(id, amount) :
                   id \in {"x", "y"}, amount \in {"-5.00", "-7.00"} }
  IN plain \cup { WithSubClass(r, sc) :
                    r \in plain, sc \in {PyNone, PyDict(Groceries), PyDict(Fuel)} }

\* dict.get(key): the value, or None when the key is missing
DictGet(d, k) == IF k \in DOMAIN d THEN d[k] ELSE PyNone

\* NormalizeRecord as a flatten that leaves the subClass columns out
NormalizeRecordScalars(transaction) ==
  [type |-> transaction.type,
   id |-> transaction.id,
   status |-> transaction.status,
   description |-> transaction.description,
   amount |-> transaction.amount,
   account |-> transaction.account,
   balance |-> transaction.balance,
   direction |-> transaction.direction,
   class |-> transaction.class,
   institution |-> transaction.institution,
   postDate |-> transaction.postDate,
   subClass_title |-> PyNone,
   subClass_code |-> PyNone]

\* request_transactions_df, the body of the for loop: one flat row
NormalizeRecord(transaction) ==
  [type |-> transaction.type,
   id |-> transaction.id,
   status |-> transaction.status,
   description |-> transaction.description,
   amount |-> transaction.amount,
   account |-> transaction.account,
   balance |-> transaction.balance,
   direction |-> transaction.direction,
   class |-> transaction.class,
   institution |-> transaction.institution,
   postDate |-> transaction.postDate,
   subClass_title |-> IF Truthy(DictGet(transaction, "subClass"))
                      THEN PyStr(transaction.subClass.val.title) ELSE PyNone,
   subClass_code |-> IF Truthy(DictGet(transaction, "subClass"))
                     THEN PyStr(transaction.subClass.val.code) ELSE PyNone]

\* request_transactions_df, the loop: one row per record, in order
NormalizeList(transaction_list) ==
  [i \in 1..Len(transaction_list) |-> NormalizeRecord(transaction_list[i])]

Rows == { NormalizeRecord(r) : r \in ProviderRecords }

SeqsUpTo(S, n) == UNION { [1..k -> S] : k \in 0..n }

Batches == SeqsUpTo(Rows, MaxBatch)
RecordLists == SeqsUpTo(ProviderRecords, MaxBatch)
RecordListsWide == SeqsUpTo(ProviderRecordsWide, MaxBatch)


\* ----------------------------------------------------------------- state
VARIABLES
  users,         \* table users: u_id -> row (the profile columns, basiq_id)
  nextUid,       \* the AUTOINCREMENT sequence of users.u_id
  transactions,  \* table transactions, committed rows in rowid order
  pending,       \* rows inserted by the open write transaction, uncommitted
  writer,        \* the caller holding SQLite's write lock, or NoProc
  nextPid,       \* the provider's account counter
  pc,            \* per caller: where it is in the function it runs
  call,          \* per caller: the arguments and locals of that function
  conn,          \* per caller: a `with sqlite3.connect(...)` block is open
  remote,        \* per caller: the remote provider call in flight
  returned       \* the function call that finished in the last step: its
                 \* name, return value, argument and locals, and whether
                 \* it repeats the call that finished in the step before;
                 \* NoReturn if the last step finished none

vars == <<users, nextUid, transactions, pending, writer, nextPid,
          pc, call, conn, remote, returned>>

store == <<users, nextUid, transactions>>

\* a call's argument and locals: user_id; got, what the call read from the
\* store before its remote call; new_basiq_id; rows, which is tran_data in
\* cache_transactions and transaction_list in request_transactions_df; the
\* loop index
NoCall == [u |-> 0, got |-> PyNone, new_basiq_id |-> PyNone,
           rows |-> <<>>, idx |-> 0]
CallOf(user_id) == [NoCall EXCEPT !.u = user_id]
NoRemote == [cap |-> "none", arg |-> PyNone]
NoReturn == [op |-> "none", ret |-> PyNone, call |-> NoCall,
             repeat |-> FALSE]

\* init_dolfin_db has run: both tables exist and are empty
Init ==
  /\ users = <<>>
  /\ nextUid = 1
  /\ transactions = <<>>
  /\ pending = <<>>
  /\ writer = NoProc
  /\ nextPid = 1
  /\ pc = [p \in Procs |-> "idle"]
  /\ call = [p \in Procs |-> NoCall]
  /\ conn = [p \in Procs |-> FALSE]
  /\ remote = [p \in Procs |-> NoRemote]
  /\ returned = NoReturn

\* ------------------------------------------------------- SQL statements
\* cursor.fetchone() after SELECT ... WHERE u_id = ?: <<>> stands for None,
\* a one-element tuple for the row found
SelectBasiqId(us, user_id) ==
  IF user_id \in DOMAIN us THEN << us[user_id].basiq_id >> ELSE <<>>

\* SelectUserInfo without its WHERE clause: the first row of the table
SelectUserInfoAny(us, user_id) ==
  IF DOMAIN us # {}
  THEN << us[CHOOSE k \in DOMAIN us : \A j \in DOMAIN us : k <= j] >>
  ELSE <<>>

SelectUserInfo(us, user_id) ==
  IF user_id \in DOMAIN us THEN << us[user_id] >> ELSE <<>>

\* INSERT INTO users (...): basiq_id takes its DEFAULT NULL
InsertUser(us, uid, person) ==
  [k \in DOMAIN us \cup {uid} |->
     IF k = uid
     THEN [email |-> person.email, mobile |-> person.mobile,
           first_name |-> person.first_name,
           middle_name |-> person.middle_name,
           last_name |-> person.last_name, password |-> person.password,
           basiq_id |-> PyNone]
     ELSE us[k]]

\* UpdateBasiqId with the clause AND basiq_id IS NULL: the first write stays
UpdateBasiqIdIfNull(us, new_basiq_id, user_id) ==
  [k \in DOMAIN us |->
     IF k = user_id /\ us[k].basiq_id.type = "NoneType"
     THEN [us[k] EXCEPT !.basiq_id = new_basiq_id] ELSE us[k]]

\* UPDATE users SET basiq_id = ? WHERE u_id = ?
UpdateBasiqId(us, new_basiq_id, user_id) ==
  [k \in DOMAIN us |->
     IF k = user_id THEN [us[k] EXCEPT !.basiq_id = new_basiq_id] ELSE us[k]]

\* cursor.rowcount after that UPDATE
UpdateRowcount(us, user_id) == IF user_id \in DOMAIN us THEN 1 ELSE 0

\* the row bound to insert_statement: the thirteen columns and trans_u_id
TransactionRow(row, user_id) ==
  [id |-> row.id, type |-> row.type, status |-> row.status,
   description |-> row.description, amount |-> row.amount,
   account |-> row.account, balance |-> row.balance,
   direction |-> row.direction, class |-> row.class,
   institution |-> row.institution, postDate |-> row.postDate,
   subClass_title |-> row.subClass_title,
   subClass_code |-> row.subClass_code, trans_u_id |-> user_id]

Ids(tx) == { tx[i].id : i \in 1..Len(tx) }

\* PrimaryKeyOk on a table whose id column is no key
PrimaryKeyNone(tx, pend, row) == TRUE

\* transactions.id is the PRIMARY KEY: the INSERT fails on a stored id,
\* committed or inserted earlier in the same transaction
PrimaryKeyOk(tx, pend, row) == row.id \notin Ids(tx) \cup Ids(pend)

\* ForeignKeyOk on a connection that never executes PRAGMA foreign_keys = ON
ForeignKeyOff(us, user_id) == TRUE

\* PRAGMA foreign_keys = ON and FOREIGN KEY (trans_u_id) REFERENCES users:
\* the INSERT fails when no users row has that u_id
ForeignKeyOk(us, user_id) == user_id \in DOMAIN us

\* SelectByUser without its WHERE clause
SelectAll(tx, user_id) == tx

\* SELECT * FROM transactions WHERE trans_u_id = ?
SelectByUser(tx, user_id) ==
  SelectSeq(tx, LAMBDA r : r.trans_u_id = user_id)

\* ON DELETE CASCADE: the rows a deleted user leaves behind
CascadeDelete(tx, user_id) ==
  SelectSeq(tx, LAMBDA r : r.trans_u_id # user_id)

\* ------------------------------------------------------ return values
\* get_basiq_id: result[0] if a row was fetched, the message otherwise
get_basiq_id(us, user_id) ==
  LET fetched == SelectBasiqId(us, user_id)
  IN IF Len(fetched) > 0 THEN fetched[1] ELSE NoUserMsg

\* get_user_info: the dict of five profile columns, or the message
get_user_info(us, user_id) ==
  LET fetched == SelectUserInfo(us, user_id)
  IN IF Len(fetched) > 0
     THEN PyDict([email |-> fetched[1].email,
                  mobile |-> fetched[1].mobile,
                  firstName |-> fetched[1].first_name,
                  middleName |-> fetched[1].middle_name,
                  lastName |-> fetched[1].last_name])
     ELSE NoUserMsg

\* the call (op, c) that finishes now has the function and the arguments of
\* the call that returned in the step before
Repeats(op, c) ==
  /\ returned.op = op
  /\ returned.ret.type # "raise"
  /\ returned.call.u = c.u
  /\ returned.call.rows = c.rows

\* a caller goes back to idle with a return value
Finish(p, op, c, v) ==
  /\ pc' = [pc EXCEPT ![p] = "idle"]
  /\ call' = [call EXCEPT ![p] = NoCall]
  /\ conn' = [conn EXCEPT ![p] = FALSE]
  /\ remote' = [remote EXCEPT ![p] = NoRemote]
  /\ returned' = [op |-> op, ret |-> v, call |-> c,
                   repeat |-> Repeats(op, c)]

\* ------------------------------------------------------------ the store
\* register_user: one INSERT and its commit
register_user(p, person) ==
  /\ pc[p] = "idle"
  /\ writer = NoProc
  /\ nextUid <= MaxUsers
  /\ users' = InsertUser(users, nextUid, person)
  /\ nextUid' = nextUid + 1
  /\ Finish(p, "register_user", CallOf(nextUid), RegisterUserMsg)
  /\ UNCHANGED <<transactions, pending, writer, nextPid>>

\* get_basiq_id / get_user_info as calls of their own
GetBasiqId(p, user_id) ==
  /\ pc[p] = "idle"
  /\ Finish(p, "get_basiq_id", CallOf(user_id),
            get_basiq_id(users, user_id))
  /\ UNCHANGED <<users, nextUid, transactions, pending, writer, nextPid>>

GetUserInfo(p, user_id) ==
  /\ pc[p] = "idle"
  /\ Finish(p, "get_user_info", CallOf(user_id),
            get_user_info(users, user_id))
  /\ UNCHANGED <<users, nextUid, transactions, pending, writer, nextPid>>

\* fetch_transactions_by_user as a read that deletes the rows it returns
fetch_transactions_consuming(p, user_id) ==
  /\ pc[p] = "idle"
  /\ writer = NoProc
  /\ transactions' = CascadeDelete(transactions, user_id)
  /\ Finish(p, "fetch_transactions_by_user", CallOf(user_id),
            PyFrame(SelectByUser(transactions, user_id)))
  /\ UNCHANGED <<users, nextUid, pending, writer, nextPid>>

\* fetch_transactions_by_user: the rows of one user, no remote call
fetch_transactions_by_user(p, user_id) ==
  /\ pc[p] = "idle"
  /\ Finish(p, "fetch_transactions_by_user", CallOf(user_id),
            PyFrame(SelectByUser(transactions, user_id)))
  /\ UNCHANGED <<users, nextUid, transactions, pending, writer, nextPid>>

\* clear_transactions: DELETE FROM transactions, committed by the with block
clear_transactions(p) ==
  /\ pc[p] = "idle"
  /\ writer = NoProc
  /\ transactions' = <<>>
  /\ Finish(p, "clear_transactions", NoCall, ClearMsg)
  /\ UNCHANGED <<users, nextUid, pending, writer, nextPid>>

\* explicit deletion of a user row on a connection that enforces foreign
\* keys: the schema's ON DELETE CASCADE removes the user's transactions
DeleteUser(user_id) ==
  /\ writer = NoProc
  /\ user_id \in DOMAIN users
  /\ users' = [k \in DOMAIN users \ {user_id} |-> users[k]]
  /\ transactions' = CascadeDelete(transactions, user_id)
  /\ returned' = [op |-> "delete_user", ret |-> PyNone,
                   call |-> [CallOf(user_id) EXCEPT
                               !.rows = SelectByUser(transactions, user_id)],
                   repeat |-> FALSE]
  /\ UNCHANGED <<nextUid, pending, writer, nextPid, pc, call, conn, remote>>


\* --------------------------------------------------- the remote provider
\* response bodies of the three capabilities, as json.loads would see them;
\* "unparseable" is a body json.loads rejects
CreateUserResponses(n) ==
  (IF n <= MaxPid THEN { [id |-> PyStr(BasiqId(n))] } ELSE {})
    \cup { [error |-> PyStr("bad request")] }

PublicLink == PyStr("https://connect.basiq.io/consent")

AuthLinkResponses ==
  { [links |-> PyDict([public |-> PublicLink])],
    [error |-> PyStr("bad request")] }

ListResponsesOf(lists) ==
  { [data |-> rl] : rl \in lists } \cup { [error |-> PyStr("bad request")] }

ListResponses == ListResponsesOf(RecordLists)

\* ------------------------------------------------------ register_basiq_id
\* get_user_info(user_id) is evaluated, its connection is gone when it
\* returns, and create_user_by_dict is called with whatever it returned
RegisterStart(p, user_id) ==
  /\ pc[p] = "idle"
  /\ pc' = [pc EXCEPT ![p] = "register_remote"]
  /\ call' = [call EXCEPT ![p] =
                [CallOf(user_id) EXCEPT !.got = get_user_info(users, user_id)]]
  /\ remote' = [remote EXCEPT ![p] =
                  [cap |-> "create_user_by_dict",
                   arg |-> get_user_info(users, user_id)]]
  /\ conn' = [conn EXCEPT ![p] = FALSE]
  /\ returned' = NoReturn
  /\ UNCHANGED <<users, nextUid, transactions, pending, writer, nextPid>>

\* json.loads(...).get('id'): the id of the response, None without one
NewBasiqId(response) == DictGet(response, "id")

\* the provider answers: new_basiq_id is bound, or json.loads raises
RegisterRemoteReturn(p) ==
  /\ pc[p] = "register_remote"
  /\ \/ \E response \in CreateUserResponses(nextPid) :
          /\ pc' = [pc EXCEPT ![p] = "register_write"]
          /\ call' = [call EXCEPT ![p].new_basiq_id = NewBasiqId(response)]
          /\ remote' = [remote EXCEPT ![p] = NoRemote]
          /\ nextPid' = IF "id" \in DOMAIN response
                        THEN nextPid + 1 ELSE nextPid
          /\ returned' = NoReturn
          /\ UNCHANGED conn
     \/ /\ Finish(p, "register_basiq_id", call[p],
                  PyRaise("JSONDecodeError"))
        /\ UNCHANGED nextPid
  /\ UNCHANGED <<users, nextUid, transactions, pending, writer>>

\* RegisterReturn without the test of the rowcount of the UPDATE
RegisterReturnNoRowcount(rowcount) == RegisterBasiqMsg

\* what register_basiq_id returns after the UPDATE
RegisterReturn(rowcount) ==
  IF rowcount = 0 THEN NoUserMsg ELSE RegisterBasiqMsg

\* the UPDATE in a connection of its own, the rowcount test, the commit
RegisterWrite(p) ==
  /\ pc[p] = "register_write"
  /\ writer = NoProc
  /\ users' = UpdateBasiqId(users, call[p].new_basiq_id, call[p].u)
  /\ Finish(p, "register_basiq_id", call[p],
            RegisterReturn(UpdateRowcount(users, call[p].u)))
  /\ UNCHANGED <<nextUid, transactions, pending, writer, nextPid>>

\* ------------------------------------------------------ link_bank_account
\* inside the with block: `if result:` holds for every fetched row, a tuple
\* of one element, so create_auth_link is called with result[0]
LinkRowFound(fetched) == Len(fetched) > 0

LinkStart(p, user_id) ==
  /\ pc[p] = "idle"
  /\ LET fetched == SelectBasiqId(users, user_id)
     IN IF LinkRowFound(fetched)
        THEN /\ pc' = [pc EXCEPT ![p] = "link_remote"]
             /\ call' = [call EXCEPT ![p] =
                           [CallOf(user_id) EXCEPT !.got = fetched[1]]]
             /\ conn' = [conn EXCEPT ![p] = TRUE]
             /\ remote' = [remote EXCEPT ![p] =
                             [cap |-> "create_auth_link",
                              arg |-> fetched[1]]]
             /\ returned' = NoReturn
        ELSE Finish(p, "link_bank_account", CallOf(user_id), NoUserMsg)
  /\ UNCHANGED <<users, nextUid, transactions, pending, writer, nextPid>>

\* .get('links').get('public'): None.get raises AttributeError
LinkReturnValue(response) ==
  IF Truthy(DictGet(response, "links")) THEN PyNone
  ELSE PyRaise("AttributeError")

\* the provider answers, the browser is opened, the with block is left and
\* the function falls off its end (returns None)
LinkRemoteReturn(p) ==
  /\ pc[p] = "link_remote"
  /\ \/ \E response \in AuthLinkResponses :
          Finish(p, "link_bank_account", call[p], LinkReturnValue(response))
     \/ Finish(p, "link_bank_account", call[p], PyRaise("JSONDecodeError"))
  /\ UNCHANGED <<users, nextUid, transactions, pending, writer, nextPid>>

\* ------------------------------------------------ request_transactions_df
\* get_basiq_id(user_id) is evaluated and get_transaction_list is called
\* with whatever it returned
FetchStart(p, user_id) ==
  /\ pc[p] = "idle"
  /\ pc' = [pc EXCEPT ![p] = "fetch_remote"]
  /\ call' = [call EXCEPT ![p] =
                [CallOf(user_id) EXCEPT !.got = get_basiq_id(users, user_id)]]
  /\ remote' = [remote EXCEPT ![p] =
                  [cap |-> "get_transaction_list",
                   arg |-> get_basiq_id(users, user_id)]]
  /\ conn' = [conn EXCEPT ![p] = FALSE]
  /\ returned' = NoReturn
  /\ UNCHANGED <<users, nextUid, transactions, pending, writer, nextPid>>

\* tran_data['data'] raises KeyError without the key
FetchReturnValue(response) ==
  IF "data" \in DOMAIN response
  THEN PyFrame(NormalizeList(response.data))
  ELSE PyRaise("KeyError")

\* transaction_list, bound by tran_data['data']
TransactionList(response) ==
  IF "data" \in DOMAIN response THEN response.data ELSE <<>>

\* the provider answers with one of the responses, or with a body that
\* json.loads rejects
FetchRemoteReturnFrom(p, responses) ==
  /\ pc[p] = "fetch_remote"
  /\ \/ \E response \in responses :
          Finish(p, "request_transactions_df",
                 [call[p] EXCEPT !.rows = TransactionList(response)],
                 FetchReturnValue(response))
     \/ Finish(p, "request_transactions_df", call[p],
               PyRaise("JSONDecodeError"))
  /\ UNCHANGED <<users, nextUid, transactions, pending, writer, nextPid>>

FetchRemoteReturn(p) == FetchRemoteReturnFrom(p, ListResponses)

\* ----------------------------------------------------- cache_transactions
\* InsertOk on a table whose only constraint is the PRIMARY KEY
InsertOkKeyOnly(us, tx, pend, row, user_id) == PrimaryKeyOk(tx, pend, row)

\* does the INSERT of this row go through
InsertOk(us, tx, pend, row, user_id) ==
  /\ PrimaryKeyOk(tx, pend, row)
  /\ ForeignKeyOk(us, user_id)

InsertError(us, tx, pend, row, user_id) ==
  IF ~PrimaryKeyOk(tx, pend, row)
  THEN ErrorMsg("UNIQUE constraint failed: transactions.id")
  ELSE ErrorMsg("FOREIGN KEY constraint failed")

\* AfterInsert on a connection that commits every INSERT on its own
AfterInsertAutocommit(tx, pend, newrow) == << Append(tx, newrow), pend >>

\* where an executed INSERT leaves its row: in the open transaction
AfterInsert(tx, pend, newrow) == << tx, Append(pend, newrow) >>

\* one cursor.execute(insert_statement, ...) of the loop, for row idx of
\* tran_data.  The first one begins the transaction and takes the write
\* lock.  sqlite3.IntegrityError leaves the with block, which rolls the
\* transaction back, and is caught by the except clause.
ExecuteInsert(p, user_id, tran_data, idx) ==
  /\ writer = IF idx = 1 THEN NoProc ELSE p
  /\ LET row == tran_data[idx]
         after == AfterInsert(transactions, pending,
                              TransactionRow(row, user_id))
     IN IF InsertOk(users, transactions, pending, row, user_id)
        THEN /\ transactions' = after[1]
             /\ pending' = after[2]
             /\ writer' = p
             /\ pc' = [pc EXCEPT ![p] = "cache_insert"]
             /\ call' = [call EXCEPT ![p] =
                           [CallOf(user_id) EXCEPT !.rows = tran_data,
                                                   !.idx = idx + 1]]
             /\ conn' = [conn EXCEPT ![p] = TRUE]
             /\ returned' = NoReturn
             /\ UNCHANGED remote
        ELSE /\ pending' = <<>>
             /\ writer' = NoProc
             /\ Finish(p, "cache_transactions",
                       [CallOf(user_id) EXCEPT !.rows = tran_data,
                                               !.idx = idx],
                       InsertError(users, transactions, pending, row,
                                   user_id))
             /\ UNCHANGED transactions

\* the connection is opened, PRAGMA foreign_keys = ON is executed and the
\* loop runs up to its first INSERT; with no row the with block is left
\* at once
CacheStart(p, user_id, tran_data) ==
  /\ pc[p] = "idle"
  /\ IF Len(tran_data) = 0
     THEN /\ Finish(p, "cache_transactions",
                    [CallOf(user_id) EXCEPT !.rows = tran_data, !.idx = 1],
                    CacheMsg)
          /\ UNCHANGED <<transactions, pending, writer>>
     ELSE ExecuteInsert(p, user_id, tran_data, 1)
  /\ UNCHANGED <<users, nextUid, nextPid>>

\* the next INSERT of the loop
CacheInsert(p) ==
  /\ pc[p] = "cache_insert"
  /\ call[p].idx <= Len(call[p].rows)
  /\ ExecuteInsert(p, call[p].u, call[p].rows, call[p].idx)
  /\ UNCHANGED <<users, nextUid, nextPid>>

\* the loop is over: the with block commits what the transaction holds
CacheCommit(p) ==
  /\ pc[p] = "cache_insert"
  /\ call[p].idx > Len(call[p].rows)
  /\ writer = p
  /\ transactions' = transactions \o pending
  /\ pending' = <<>>
  /\ writer' = NoProc
  /\ Finish(p, "cache_transactions", call[p], CacheMsg)
  /\ UNCHANGED <<users, nextUid, nextPid>>

\* the caller's process dies inside the loop: SQLite discards the
\* uncommitted transaction
CacheCrash(p) ==
  /\ pc[p] = "cache_insert"
  /\ writer = p
  /\ pending' = <<>>
  /\ writer' = NoProc
  /\ Finish(p, "cache_transactions", call[p], PyRaise("killed"))
  /\ UNCHANGED <<users, nextUid, transactions, nextPid>>

\* ------------------------------------------------------------------ Next
\* the functions that are one step: a store statement and its commit
StoreCall(p) ==
  \/ \E person \in People : register_user(p, person)
  \/ \E u \in CallIds : GetBasiqId(p, u)
  \/ \E u \in CallIds : GetUserInfo(p, u)
  \/ \E u \in CallIds : fetch_transactions_by_user(p, u)
  \/ clear_transactions(p)

\* register_basiq_id and link_bank_account
LinkerCall(p) ==
  \/ \E u \in CallIds : RegisterStart(p, u)
  \/ RegisterRemoteReturn(p)
  \/ RegisterWrite(p)
  \/ \E u \in CallIds : LinkStart(p, u)
  \/ LinkRemoteReturn(p)

\* request_transactions_df and cache_transactions
SyncerCall(p) ==
  \/ \E u \in CallIds : FetchStart(p, u)
  \/ FetchRemoteReturn(p)
  \/ \E u \in CallIds, b \in Batches : CacheStart(p, u, b)
  \/ CacheInsert(p)
  \/ CacheCommit(p)
  \/ CacheCrash(p)

\* what goes on between the steps of caller p1: another caller registers
\* a user or clears the cache, and a user row is deleted
Interference ==
  \/ \E person \in People : register_user("p2", person)
  \/ clear_transactions("p2")
  \/ \E u \in UserIds : DeleteUser(u)

Next ==
  \/ StoreCall("p1")
  \/ LinkerCall("p1")
  \/ SyncerCall("p1")
  \/ Interference

Spec == Init /\ [][Next]_vars

\* The identity linker writes users.basiq_id only and the cache writes
\* transactions only, and neither write path reads what the other writes:
\* each is also run without the other, which leaves room for larger bounds.
NextSyncer ==
  \/ StoreCall("p1")
  \/ SyncerCall("p1")
  \/ Interference

SpecSyncer == Init /\ [][NextSyncer]_vars

NextLinker ==
  \/ StoreCall("p1")
  \/ LinkerCall("p1")
  \/ Interference

SpecLinker == Init /\ [][NextLinker]_vars

\* request_transactions_df alone, over every list of the wider records
NextNormalize ==
  \/ \E person \in People : register_user("p1", person)
  \/ \E u \in CallIds : FetchStart("p1", u)
  \/ FetchRemoteReturnFrom("p1", ListResponsesOf(RecordListsWide))

SpecNormalize == Init /\ [][NextNormalize]_vars

\* the read path next to writers that keep to batches and lists of at most
\* one row: every read-path function runs against stores with and without
\* users, basiq ids and cached rows
NextReader ==
  \/ StoreCall("p1")
  \/ LinkerCall("p1")
  \/ \E u \in CallIds : FetchStart("p1", u)
  \/ FetchRemoteReturnFrom("p1", ListResponsesOf(SeqsUpTo(ProviderRecords, 1)))
  \/ \E u \in CallIds, b \in SeqsUpTo(Rows, 1) : CacheStart("p1", u, b)
  \/ CacheCommit("p1")

SpecReader == Init /\ [][NextReader]_vars

\* register_basiq_id run by both callers at once
NextConc ==
  \E p \in Procs :
    \/ \E person \in People : register_user(p, person)
    \/ \E u \in CallIds : RegisterStart(p, u)
    \/ RegisterRemoteReturn(p)
    \/ RegisterWrite(p)

SpecConc == Init /\ [][NextConc]_vars

\* the users table alone, with two different people to register
NextProfiles ==
  \/ \E person \in Profiles : register_user("p1", person)
  \/ \E u \in CallIds : GetUserInfo("p1", u)
  \/ \E u \in CallIds : GetBasiqId("p1", u)
  \/ \E u \in UserIds : DeleteUser(u)

SpecProfiles == Init /\ [][NextProfiles]_vars

\* ================================================================ claims
\* the contract's error names, as the functions report them
NotFound == NoUserMsg
NotLinked == PyRaise("NotLinked")
IsStorageError(v) == v.type = "str" /\ v.val \in
  { ErrorMsg("UNIQUE constraint failed: transactions.id").val,
    ErrorMsg("FOREIGN KEY constraint failed").val }

\* the last step finished function op by returning (not by being killed)
Returned(op) == returned.op = op /\ returned.ret # PyRaise("killed")

\* the rows of a batch as stored for user_id
StoredBatch(rows, user_id) ==
  [i \in 1..Len(rows) |-> TransactionRow(rows[i], user_id)]

\* tx holds exactly one row with the id of row, and it is row
StoredOnce(tx, row) ==
  /\ Cardinality({ i \in 1..Len(tx) : tx[i].id = row.id }) = 1
  /\ \E i \in 1..Len(tx) : tx[i] = row

\* ---------------------------------------------------------------- C1
\* C1: calling cache_transactions(u, [T]) twice in a row, for a user u that
\* has a row, leaves exactly one stored row with T's id, equal to T and
\* owned by u, and the second call leaves the store as the first left it.
C1_IdempotentIngestion ==
  ( /\ Returned("cache_transactions")
    /\ returned.repeat
    /\ Len(returned.call.rows) = 1
    /\ returned.call.u \in DOMAIN users )
  => StoredOnce(transactions,
                TransactionRow(returned.call.rows[1], returned.call.u))

\* ---------------------------------------------------------------- C2
\* C2: every step of a cache_transactions call leaves the committed
\* transactions as they were, or, when the call returns its success
\* message, extends them by all rows of the batch; a call that fails on
\* its k-th row or is killed leaves none of its rows.
C2_BatchAtomicity ==
  [][ \A p \in Procs :
        (pc[p] = "cache_insert" \/ pc'[p] = "cache_insert"
           \/ returned'.op = "cache_transactions")
        => \/ transactions' = transactions
           \/ /\ returned'.op = "cache_transactions"
              /\ returned'.ret = CacheMsg
              /\ transactions' =
                   transactions \o StoredBatch(returned'.call.rows,
                                               returned'.call.u) ]_vars

\* a batch failed on its second row, after its first row was inserted
C2_Witness ==
  /\ returned.op = "cache_transactions"
  /\ IsStorageError(returned.ret)
  /\ returned.call.idx = 2
  /\ returned.call.rows[1].id \notin Ids(transactions)

\* ---------------------------------------------------------------- C3
\* C3: get_transaction_list is never called for a user whose basiq_id is
\* NULL, and request_transactions_df for such a user fails with NotLinked.
C3_LinkPrecondition ==
  /\ \A p \in Procs :
       ~(remote[p].cap = "get_transaction_list" /\ remote[p].arg = PyNone)
  /\ (returned.op = "request_transactions_df" /\ returned.call.got = PyNone)
       => returned.ret = NotLinked


\* ---------------------------------------------------------------- C4
\* C4: a new users row has basiq_id NULL, it leaves NULL only when a
\* register_basiq_id call for that user returns its success message, and
\* once it is not NULL no step changes it.
C4_SetOnce ==
  [][ /\ \A u \in DOMAIN users' \ DOMAIN users :
           users'[u].basiq_id = PyNone
      /\ \A u \in DOMAIN users \cap DOMAIN users' :
           /\ Truthy(users[u].basiq_id)
                => users'[u].basiq_id = users[u].basiq_id
           /\ (~Truthy(users[u].basiq_id) /\ Truthy(users'[u].basiq_id))
                => /\ returned'.op = "register_basiq_id"
                   /\ returned'.ret = RegisterBasiqMsg
                   /\ returned'.call.u = u ]_vars

\* ---------------------------------------------------------------- C5
\* C5: every stored transaction is owned by a user that has a row, and
\* right after a user is deleted no stored transaction is owned by it.
C5_CascadeIntegrity ==
  /\ \A i \in 1..Len(transactions) :
       transactions[i].trans_u_id \in DOMAIN users
  /\ returned.op = "delete_user"
       => SelectByUser(transactions, returned.call.u) = <<>>

\* a user that owned cached transactions has just been deleted
C5_Witness ==
  /\ returned.op = "delete_user"
  /\ Len(returned.call.rows) > 0
  /\ returned.call.u \notin DOMAIN users

\* ---------------------------------------------------------------- C6
\* C6: create_auth_link is never called with a NULL basiq_id, and
\* link_bank_account for a user whose basiq_id is NULL fails with NotLinked.
C6_LinkNeedsBasiqId ==
  /\ \A p \in Procs :
       ~(remote[p].cap = "create_auth_link" /\ remote[p].arg = PyNone)
  /\ ( /\ returned.op = "link_bank_account"
       /\ returned.call.u \in DOMAIN users
       /\ users[returned.call.u].basiq_id = PyNone )
       => returned.ret = NotLinked

\* ---------------------------------------------------------------- C7
\* C7: create_user_by_dict is never called for a user_id whose profile
\* read found no row, and register_basiq_id then returns NotFound.
C7_RegisterUnknownUser ==
  /\ \A p \in Procs :
       remote[p].cap = "create_user_by_dict" => remote[p].arg.type = "dict"
  /\ (returned.op = "register_basiq_id" /\ returned.call.got.type = "str")
       => returned.ret = NotFound

\* ---------------------------------------------------------------- C8
\* C8: when register_basiq_id returns its success message, the user's
\* stored basiq_id is not NULL and is the id of the provider's response,
\* and get_basiq_id returns it.
C8_SuccessMeansLinked ==
  (returned.op = "register_basiq_id" /\ returned.ret = RegisterBasiqMsg)
  => /\ returned.call.u \in DOMAIN users
     /\ Truthy(returned.call.new_basiq_id)
     /\ users[returned.call.u].basiq_id = returned.call.new_basiq_id
     /\ get_basiq_id(users, returned.call.u) = returned.call.new_basiq_id

\* ---------------------------------------------------------------- C9
\* C9: when the user's row, read before create_user_by_dict was called, is
\* gone at the UPDATE, register_basiq_id returns NotFound and no users row
\* carries the id the provider issued.
C9_DeletedBeforeWrite ==
  ( /\ returned.op = "register_basiq_id"
    /\ returned.call.got.type = "dict"
    /\ returned.ret.type # "raise"
    /\ returned.call.u \notin DOMAIN users )
  => /\ returned.ret = NotFound
     /\ \A k \in DOMAIN users :
          Truthy(returned.call.new_basiq_id)
            => users[k].basiq_id # returned.call.new_basiq_id

\* the row was read, the provider issued an id, the row was deleted and
\* the UPDATE has run
C9_Witness ==
  /\ returned.op = "register_basiq_id"
  /\ returned.call.got.type = "dict"
  /\ Truthy(returned.call.new_basiq_id)
  /\ returned.call.u \notin DOMAIN users
  /\ returned.ret.type # "raise"

\* --------------------------------------------------------------- C10
\* C10: no caller has a sqlite3 connection block open while a remote
\* provider call of its function is in flight.
C10_NoScopeAcrossRemote ==
  \A p \in Procs : remote[p].cap # "none" => ~conn[p]

\* --------------------------------------------------------------- C11
\* the number of rows of tx that carry the id
CountOfId(tx, id) == Cardinality({ i \in 1..Len(tx) : tx[i].id = id })

\* the ids of the rows of a batch
BatchIds(rows) == { rows[i].id : i \in 1..Len(rows) }

\* the step that ends a cache_transactions call by a return.  The call holds
\* the write lock from its first INSERT on, so the committed rows and the
\* users before this step are those the call started with.
CacheReturns == returned'.op = "cache_transactions"
                  /\ returned'.ret # PyRaise("killed")

\* C11: cache_transactions(u, rows), for a user u that has a row and a
\* batch that holds ids already stored for u together with ids not stored,
\* returns its success message, and afterwards every id of the batch is
\* stored exactly once.
C11_ReingestMixedBatch ==
  [][ ( /\ CacheReturns
        /\ returned'.call.u \in DOMAIN users
        /\ BatchIds(returned'.call.rows)
             \cap Ids(SelectByUser(transactions, returned'.call.u)) # {}
        /\ BatchIds(returned'.call.rows) \ Ids(transactions) # {} )
      => /\ returned'.ret = CacheMsg
         /\ \A id \in BatchIds(returned'.call.rows) :
              CountOfId(transactions', id) = 1 ]_vars

\* --------------------------------------------------------------- C12
\* C12: cache_transactions(u, rows) with a non-empty batch, for a user_id u
\* that has no users row (never issued, or deleted), returns a storage
\* error message and leaves the committed transactions as they were, with
\* nothing left uncommitted.
C12_NoUserFailsBatch ==
  [][ ( /\ CacheReturns
        /\ Len(returned'.call.rows) > 0
        /\ returned'.call.u \notin DOMAIN users )
      => /\ IsStorageError(returned'.ret)
         /\ transactions' = transactions
         /\ pending' = <<>> ]_vars

\* a batch for a user whose row was deleted has been refused
C12_Witness ==
  /\ returned.op = "cache_transactions"
  /\ Len(returned.call.rows) > 0
  /\ returned.call.u \notin DOMAIN users
  /\ returned.call.u < nextUid
  /\ IsStorageError(returned.ret)

\* --------------------------------------------------------------- C13
\* C13: every stored transaction is owned by a user whose basiq_id is not
\* NULL, and request_transactions_df and cache_transactions succeed only
\* for a user whose basiq_id is not NULL.
C13_LinkBeforeSync ==
  /\ \A i \in 1..Len(transactions) :
       transactions[i].trans_u_id \in DOMAIN users
         => users[transactions[i].trans_u_id].basiq_id # PyNone
  /\ ( \/ returned.op = "request_transactions_df"
            /\ returned.ret.type = "DataFrame"
       \/ returned.op = "cache_transactions" /\ returned.ret = CacheMsg
            /\ Len(returned.call.rows) > 0 )
       => /\ returned.call.u \in DOMAIN users
          /\ users[returned.call.u].basiq_id # PyNone

\* --------------------------------------------------------------- C14
\* the eleven fields a provider record and its flat row share
ScalarFields ==
  {"type", "id", "status", "description", "amount", "account", "balance",
   "direction", "class", "institution", "postDate"}

\* the record carries a subClass object (the key is there and is not null)
HasSubClass(r) == "subClass" \in DOMAIN r /\ r.subClass.type # "NoneType"

\* row is the flat form of the provider record r
FlatOf(r, row) ==
  /\ DOMAIN row = ScalarFields \cup {"subClass_title", "subClass_code"}
  /\ \A k \in ScalarFields : row[k] = r[k]
  /\ ~HasSubClass(r)
       => row.subClass_title = PyNone /\ row.subClass_code = PyNone
  /\ HasSubClass(r)
       => /\ row.subClass_title = PyStr(r.subClass.val.title)
          /\ row.subClass_code = PyStr(r.subClass.val.code)

\* C14: the DataFrame request_transactions_df returns has one row per record
\* of the provider's list, in the same order; each row has NULL subClass
\* columns when the record's subClass is missing or null, the subClass's
\* title and code otherwise, and every other field as the record has it.
C14_Normalization ==
  (returned.op = "request_transactions_df" /\ returned.ret.type = "DataFrame")
  => /\ Len(returned.ret.val) = Len(returned.call.rows)
     /\ \A i \in 1..Len(returned.call.rows) :
          FlatOf(returned.call.rows[i], returned.ret.val[i])

\* a list with a categorised record and a record whose subClass is null
\* has been normalized
C14_Witness ==
  /\ returned.op = "request_transactions_df"
  /\ returned.ret.type = "DataFrame"
  /\ \E i, j \in 1..Len(returned.call.rows) :
       /\ HasSubClass(returned.call.rows[i])
       /\ returned.ret.val[i].subClass_title = PyStr("Fuel")
       /\ "subClass" \in DOMAIN returned.call.rows[j]
       /\ ~HasSubClass(returned.call.rows[j])
       /\ returned.ret.val[j].subClass_code = PyNone

\* --------------------------------------------------------------- C15
\* the positions of the stored rows owned by user_id
OwnedAt(tx, user_id) == { j \in 1..Len(tx) : tx[j].trans_u_id = user_id }

\* C15: fetch_transactions_by_user(u) returns a DataFrame that holds every
\* stored row owned by u, once, and no row of another owner; it is empty
\* when u owns no stored row.
C15_CachedByOwner ==
  returned.op = "fetch_transactions_by_user"
  => /\ returned.ret.type = "DataFrame"
     /\ \A i \in 1..Len(returned.ret.val) :
          /\ returned.ret.val[i].trans_u_id = returned.call.u
          /\ \E j \in 1..Len(transactions) :
               transactions[j] = returned.ret.val[i]
     /\ \A j \in OwnedAt(transactions, returned.call.u) :
          \E i \in 1..Len(returned.ret.val) :
            returned.ret.val[i] = transactions[j]
     /\ Len(returned.ret.val) =
          Cardinality(OwnedAt(transactions, returned.call.u))

\* the cache of one user has been read while another user has rows too
C15_Witness ==
  /\ returned.op = "fetch_transactions_by_user"
  /\ Len(returned.ret.val) > 0
  /\ \E j \in 1..Len(transactions) :
       transactions[j].trans_u_id # returned.call.u

\* the cache of a user without rows has been read next to another's rows
C15_WitnessEmpty ==
  /\ returned.op = "fetch_transactions_by_user"
  /\ returned.call.u \in DOMAIN users
  /\ returned.ret = PyFrame(<<>>)
  /\ Len(transactions) > 0

\* --------------------------------------------------------------- C16
\* C16: get_basiq_id(u), for a user u that has a row whose basiq_id is
\* NULL, returns NotFound.
C16_NullIdIsNotFound ==
  ( /\ returned.op = "get_basiq_id"
    /\ returned.call.u \in DOMAIN users
    /\ users[returned.call.u].basiq_id = PyNone )
  => returned.ret = NotFound

\* --------------------------------------------------------------- C17
\* C17: get_user_info(id) returns NotFound for an id that has no users row,
\* and for an id that has one the dict of that row's email, mobile and
\* three names.
C17_ProfileOrNotFound ==
  returned.op = "get_user_info"
  => IF returned.call.u \in DOMAIN users
     THEN /\ returned.ret.type = "dict"
          /\ returned.ret.val.email = users[returned.call.u].email
          /\ returned.ret.val.mobile = users[returned.call.u].mobile
          /\ returned.ret.val.firstName = users[returned.call.u].first_name
          /\ returned.ret.val.middleName = users[returned.call.u].middle_name
          /\ returned.ret.val.lastName = users[returned.call.u].last_name
     ELSE returned.ret = NotFound

\* an id without a row was looked up in a table that holds another row
C17_Witness ==
  /\ returned.op = "get_user_info"
  /\ returned.call.u \notin DOMAIN users
  /\ DOMAIN users # {}
  /\ returned.ret = NotFound

\* the profile of one of two different users was looked up
C17_WitnessProfile ==
  /\ returned.op = "get_user_info"
  /\ returned.ret.type = "dict"
  /\ \E k \in DOMAIN users : users[k].email # returned.ret.val.email

\* --------------------------------------------------------------- C18
\* the functions of the read path, and where their remote calls wait
ReadOps ==
  {"request_transactions_df", "link_bank_account",
   "fetch_transactions_by_user", "get_user_info", "get_basiq_id"}

ReadPcs == {"fetch_remote", "link_remote"}

\* this step is a step of a read-path function: it returns from one, or a
\* caller enters or leaves the remote call of one
ReadStep ==
  \/ returned'.op \in ReadOps
  \/ \E p \in Procs :
       pc'[p] # pc[p] /\ (pc[p] \in ReadPcs \/ pc'[p] \in ReadPcs)

\* C18: no step of request_transactions_df, link_bank_account,
\* fetch_transactions_by_user, get_user_info or get_basiq_id changes the
\* users table, its id sequence, the committed transactions or the
\* uncommitted ones, whatever the function returns or raises.
C18_ReadPathFrame ==
  [][ ReadStep => (store' = store /\ pending' = pending) ]_vars

\* a read-path function has failed on a store that holds users and
\* transactions
C18_Witness ==
  /\ returned.op \in {"request_transactions_df", "link_bank_account"}
  /\ returned.ret.type = "raise"
  /\ Len(transactions) > 0

\* --------------------------------------------------------------- C19
\* both callers have their provider's id and wait to write it for the same
\* user, who has a row
BothCreated(p, q) ==
  /\ p # q
  /\ pc[p] = "register_write" /\ pc[q] = "register_write"
  /\ call[p].u = call[q].u
  /\ call[p].u \in DOMAIN users
  /\ Truthy(call[p].new_basiq_id) /\ Truthy(call[q].new_basiq_id)

\* caller q still waits to write while the other caller's register_basiq_id
\* for the same user returned its success message in the step before: both
\* ids were issued before either was written
OneWritten(q) ==
  /\ pc[q] = "register_write"
  /\ Truthy(call[q].new_basiq_id)
  /\ returned.op = "register_basiq_id"
  /\ returned.ret = RegisterBasiqMsg
  /\ Truthy(returned.call.new_basiq_id)
  /\ returned.call.u = call[q].u
  /\ call[q].u \in DOMAIN users

\* C19: when two register_basiq_id calls for the same user have both been
\* issued an id before either writes, the first UPDATE reports success and
\* stores its id, and the second UPDATE reports success too, stores its own
\* id and leaves the first call's id in no users row.
C19_LastWriteWins ==
  [][ \A p, q \in Procs :
        /\ (BothCreated(p, q) /\ pc'[p] = "idle")
             => /\ returned'.ret = RegisterBasiqMsg
                /\ users'[call[p].u].basiq_id = call[p].new_basiq_id
                /\ pc'[q] = "register_write"
        /\ (OneWritten(q) /\ pc'[q] = "idle")
             => /\ returned'.ret = RegisterBasiqMsg
                /\ users'[call[q].u].basiq_id = call[q].new_basiq_id
                /\ \A k \in DOMAIN users' :
                     users'[k].basiq_id # returned.call.new_basiq_id ]_vars

\* one of two interleaved registrations has written its id and the other
\* is about to write a different one
C19_Witness ==
  \E q \in Procs :
    /\ OneWritten(q)
    /\ users[call[q].u].basiq_id = returned.call.new_basiq_id
    /\ call[q].new_basiq_id # returned.call.new_basiq_id

\* the second of two registrations that returned one right after the other
\* has stored its id
C19_WitnessSecond ==
  /\ returned.op = "register_basiq_id"
  /\ returned.repeat
  /\ returned.ret = RegisterBasiqMsg
  /\ Truthy(returned.call.new_basiq_id)
  /\ users[returned.call.u].basiq_id = returned.call.new_basiq_id
  /\ \A p \in Procs : pc[p] = "idle"

\* --------------------------------------------------------------- C20
\* the stored owner of the id, for an id that is stored
OwnerOf(tx, id) == tx[CHOOSE i \in 1..Len(tx) : tx[i].id = id].trans_u_id

\* the ids of the batch that are stored for a user other than user_id
ForeignIds(tx, rows, user_id) ==
  { id \in BatchIds(rows) \cap Ids(tx) : OwnerOf(tx, id) # user_id }

\* C20: no two stored rows have the same id, and cache_transactions(B,
\* rows) with a batch that holds an id stored for another user A returns a
\* storage error and leaves the committed transactions as they were, the
\* row of that id with its owner A among them.
C20_IdsUniqueOwnerFixed ==
  [][ /\ \A id \in Ids(transactions') : CountOfId(transactions', id) = 1
      /\ ( /\ CacheReturns
           /\ ForeignIds(transactions, returned'.call.rows,
                         returned'.call.u) # {} )
         => /\ IsStorageError(returned'.ret)
            /\ transactions' = transactions
            /\ pending' = <<>> ]_vars

\* a two-row batch of user B whose second row repeats an id stored for
\* user A has been refused, and B, who has a row, owns nothing
C20_Witness ==
  /\ returned.op = "cache_transactions"
  /\ IsStorageError(returned.ret)
  /\ returned.call.u \in DOMAIN users
  /\ returned.call.idx = 2
  /\ ForeignIds(transactions, returned.call.rows, returned.call.u) # {}
  /\ OwnedAt(transactions, returned.call.u) = {}

====
